---- MODULE Spec2Model ----
(***************************************************************************)
(* Model of pyquante2/basis/pgbf.py: the primitive gaussian basis function *)
(* class pgbf (constructor, __repr__, __call__, _normalize) together with  *)
(* the Python objects a caller hands to it.                                *)
(*                                                                         *)
(* Numbers.  A Python scalar is a record [t, v]: its type tag and its      *)
(* numeric value (for a str, the number its text spells).  The reals the   *)
(* class computes are kept exactly, in closed form:                        *)
(*   Surd [n, d, r, p]  stands for  (n/d) * sqrt(r) / pi^(1.5*p)           *)
(*   Amp  [c, s, e]     stands for  c * sqrt(s) * exp(-e),  s a Surd       *)
(* so pow(b, k+1.5) = b^(k+1) * sqrt(b) is the Surd [b^(k+1), 1, b, 0].    *)
(*                                                                         *)
(* Spec      one caller, one object: it builds lists, constructs, calls,   *)
(*           takes the repr, renormalizes and assigns items of its lists.  *)
(* SpecPure  two objects and two threads that step through __call__ line   *)
(*           by line, interleaved with the class's other operations.       *)
(***************************************************************************)
EXTENDS Integers, Sequences, FiniteSets, TLC

\* ---------------------------------------------------------------- bounds
MaxPower == 1       \* an angular power is in 0..MaxPower
MaxExp == 2         \* an exponent value is in 0..MaxExp

\* `assert len(origin) == 3`, `assert len(powers) == 3`
Arity == 3

ObjIds == {1, 2}            \* the pgbf objects of the concurrent specification
SoloIds == {1}              \* the pgbf object of the single-threaded specification
ListIds == {1}              \* the caller's mutable list objects
Threads == {1, 2}           \* evaluating threads of the concurrent specification
Elems == 0..MaxPower        \* an element of a caller's sequence
Lens == {Arity - 1, Arity}  \* lengths of the sequences a caller builds

\* ------------------------------------------------------- Python scalars
PyInt(k) == [t |-> "int", v |-> k]
PyFloat(k) == [t |-> "float", v |-> k]
PyStr(k) == [t |-> "str", v |-> k]
None == [t |-> "none", v |-> 0]

\* Python's == on scalars: numbers compare by value, a str never equals a number.
PyEq(x, y) ==
    IF x.t \in {"int", "float"} /\ y.t \in {"int", "float"} THEN x.v = y.v
    ELSE x = y

\* float(x) with the type left as supplied: the conversion forgotten.
FloatKeep(x) == x

\* float(x), line 38: an int or a float becomes the float of the same value,
\* a numeric str becomes the float its text spells.
Float(x) == PyFloat(x.v)

\* array(seq, 'd'), line 39: a fresh array of doubles, one per element.
ArrayD(seq) == [i \in 1..Len(seq) |-> Float(PyInt(seq[i]))]

\* ------------------------------------------------------------ exact reals
Surd(n, d, r, p) == [n |-> n, d |-> d, r |-> r, p |-> p]
ZeroSurd == Surd(0, 1, 0, 0)
Zero == [c |-> 0, s |-> ZeroSurd, e |-> 0]

RECURSIVE IPow(_, _)
\* integer power b^k, k >= 0 (b^0 = 1)
IPow(b, k) == IF k = 0 THEN 1 ELSE b * IPow(b, k - 1)

\* pow(b, k + 1.5) for a number b >= 0 and an integer k >= 0
PowHalf(b, k) == IF b = 0 THEN ZeroSurd ELSE Surd(IPow(b, k + 1), 1, b, 0)

SurdMul(x, y) ==
    IF x.n = 0 \/ y.n = 0 THEN ZeroSurd
    ELSE Surd(x.n * y.n, x.d * y.d, x.r * y.r, x.p + y.p)

\* x / f for an integer f
SurdDivInt(x, f) == IF x.n = 0 THEN ZeroSurd ELSE [x EXCEPT !.d = @ * f]

\* x / pow(pi, 1.5)
SurdDivPi15(x) == IF x.n = 0 THEN ZeroSurd ELSE [x EXCEPT !.p = @ + 1]

\* sqrt(x)
Sqrt(x) == IF x.n = 0 THEN Zero ELSE [c |-> 1, s |-> x, e |-> 0]

\* x * k for an integer-valued double k
TimesInt(x, k) == IF x.c = 0 \/ k = 0 THEN Zero ELSE [x EXCEPT !.c = @ * k]

\* x * exp(-t), t >= 0; exp(-0) is 1
TimesExp(x, t) == IF x.c = 0 THEN Zero ELSE [x EXCEPT !.e = @ + t]

\* x > 0
Positive(x) == x.c > 0 /\ x.s.n > 0 /\ x.s.d > 0 /\ x.s.r > 0

\* d ** k of numpy with 0.0 ** 0 taken as 0: the wrong 0^0 convention.
PowZeroZero(d, k) == IF d = 0 THEN 0 ELSE IPow(d, k)

\* d ** k, line 51: numpy's power of a double by a Python int; 0.0 ** 0 is 1.0
Pow(d, k) == IPow(d, k)

RECURSIVE fact2(_)
\* pyquante2.utils.fact2: the double factorial, 1 for n <= 0
fact2(n) == IF n <= 0 THEN 1 ELSE n * fact2(n - 2)

\* pyquante2.utils.norm2: the squared Euclidean norm of a 3-vector
norm2(d) == d[1] * d[1] + d[2] * d[2] + d[3] * d[3]

\* ------------------------------------------------- the caller's sequences
\* A sequence handed to the constructor: a tuple (immutable, modelled by value)
\* or a reference to one of the caller's list objects.
TupleOf(e) == [kind |-> "tuple", elems |-> e, ref |-> 0]
ListRef(id) == [kind |-> "list", elems |-> <<>>, ref |-> id]
NoSeq == [kind |-> "none", elems |-> <<>>, ref |-> 0]

SeqsOver(S) == UNION {[1..k -> S] : k \in Lens}

VARIABLES
    lists,   \* the caller's list objects: id -> [live, elems]
    objs,    \* the pgbf objects: id -> [st, exponent, origin, powers, norm, args]
    held,    \* the objects the constructor returned to the caller
    ret,     \* what the last operation returned or raised (for a construction,
             \* with the lengths of the origin and powers it was given)
    th       \* the evaluating threads: position in __call__ and its locals

vars == <<lists, objs, held, ret, th>>

\* The elements a sequence value denotes in heap h.
DerefIn(h, s) == IF s.kind = "list" THEN h[s.ref].elems ELSE s.elems
Deref(s) == DerefIn(lists, s)

\* The arguments the single-threaded specification draws.
ExponentArgs == {PyInt(k) : k \in 1..MaxExp} \cup {PyFloat(0), PyStr(MaxExp)}
LiveLists == {ListRef(id) : id \in {i \in ListIds : lists[i].live}}
OriginArgs == {TupleOf(e) : e \in {<<0, 0, 0>>, <<1, 0, 1>>, <<0, 1>>}}
PowersArgs == {TupleOf(e) : e \in SeqsOver(Elems)} \cup LiveLists
Points == {<<0, 0, 0>>, <<1, 0, 1>>, <<0, 1, 0>>}

\* The arguments the concurrent specification draws.
PureExponentArgs == {PyInt(1), PyFloat(MaxExp)}
PureOriginArgs == {TupleOf(e) : e \in {<<0, 0, 0>>, <<1, 0, 1>>}}
PurePowersArgs ==
    {TupleOf(e) : e \in {<<0, 0, 0>>, <<1, 0, 0>>, <<0, MaxPower, 1>>}}
PurePoints == {<<0, 0, 0>>, <<1, 0, 1>>}

\* --------------------------------------------------------------- class pgbf
\* args: the three arguments __init__ was called with (kept for the properties)
NoArgs == [exponent |-> None, origin |-> NoSeq, powers |-> NoSeq]
One == [c |-> 1, s |-> Surd(1, 1, 1, 0), e |-> 0]

FreeObj ==
    [st |-> "free", exponent |-> None, origin |-> <<>>, powers |-> NoSeq,
     norm |-> Zero, args |-> NoArgs]

\* `self.norm = 1`, line 35: all an object carries when an assert stops __init__
PartialObj == [FreeObj EXCEPT !.st = "partial", !.norm = One]

\* THO eq. 2.2 with the sign of the leading factor lost.
NormalizationNeg(a, pw) ==
    LET L == pw[1] + pw[2] + pw[3]
    IN  Sqrt(SurdDivPi15(SurdMul(Surd(0 - IPow(2, 2 * L + 1), 1, 2, 0),
                                 PowHalf(a.v, L))))

\* lines 55-59: sqrt(pow(2,2*(l+m+n)+1.5) * pow(exponent,l+m+n+1.5)
\*                   / fact2(2l-1) / fact2(2m-1) / fact2(2n-1) / pow(pi,1.5))
Normalization(a, pw) ==
    LET l == pw[1]
        m == pw[2]
        n == pw[3]
        L == l + m + n
    IN  Sqrt(SurdDivPi15(SurdDivInt(SurdDivInt(SurdDivInt(
            SurdMul(PowHalf(2, 2 * L), PowHalf(a.v, L)),
            fact2(2 * l - 1)), fact2(2 * m - 1)), fact2(2 * n - 1))))

\* _normalize, lines 53-60, on object self in heap h
AfterNormalize(h, self) ==
    [self EXCEPT !.norm = Normalization(self.exponent, DerefIn(h, self.powers))]

\* __init__ without the two asserts.
PgbfInitNoAssert(h, e, og, pw) ==
    [exc |-> "none",
     self |-> [st |-> "ready", exponent |-> Float(e),
               origin |-> ArrayD(DerefIn(h, og)), powers |-> pw, norm |-> One,
               args |-> [exponent |-> e, origin |-> og, powers |-> pw]]]

\* __init__, lines 34-41, on arguments (e, og, pw) in heap h: the exception it
\* raises and the object it leaves.  powers is stored as passed (line 40), the
\* origin is copied into a fresh array (line 39).
PgbfInit(h, e, og, pw) ==
    IF Len(DerefIn(h, og)) # Arity \/ Len(DerefIn(h, pw)) # Arity
    THEN [exc |-> "AssertionError", self |-> PartialObj]
    ELSE [exc |-> "none",
          self |-> AfterNormalize(h,
              [st |-> "ready", exponent |-> Float(e),
               origin |-> ArrayD(DerefIn(h, og)), powers |-> pw, norm |-> One,
               args |-> [exponent |-> e, origin |-> og, powers |-> pw]])]

\* line 49 with the sign slipped: d = xyz + self.origin
DisplacementSum(origin, pt) == [i \in 1..Arity |-> pt[i] + origin[i].v]

\* line 49: d = xyz - self.origin
Displacement(origin, pt) == [i \in 1..Arity |-> pt[i] - origin[i].v]

\* line 51: self.norm*d[0]**i*d[1]**j*d[2]**k*exp(-self.exponent*d2)
Amplitude(norm, exponent, pw, d, d2) ==
    TimesExp(TimesInt(TimesInt(TimesInt(norm, Pow(d[1], pw[1])),
                               Pow(d[2], pw[2])), Pow(d[3], pw[3])),
             exponent.v * d2)

\* __call__, lines 45-51, run start to end on object self in heap h
PgbfCall(h, self, pt) ==
    LET pw == DerefIn(h, self.powers)
        d == Displacement(self.origin, pt)
    IN  Amplitude(self.norm, self.exponent, pw, d, norm2(d))

\* __call__ that also keeps its result in self.norm.
SelfAfterCallCaching(h, self, pt) == [self EXCEPT !.norm = PgbfCall(h, self, pt)]

\* The object after __call__, lines 45-51: no statement assigns to self.
SelfAfterCall(h, self, pt) == self

\* __repr__, line 43: "pgbf(%f,%s,%s)" % (exponent, tuple(origin), powers)
PgbfRepr(h, self) ==
    <<"pgbf", self.exponent.v, [i \in 1..Len(self.origin) |-> self.origin[i].v],
      self.powers.kind, DerefIn(h, self.powers)>>

\* ------------------------------------------------------------------ state
NoRet ==
    [op |-> "none", obj |-> 0, exc |-> "none", val |-> Zero, pt |-> <<>>,
     olen |-> 0, plen |-> 0, text |-> <<>>]

IdleThread ==
    [pc |-> "idle", obj |-> 0, pt |-> <<>>, pw |-> <<>>, d |-> <<>>, d2 |-> 0,
     val |-> Zero]

Init ==
    /\ lists = [id \in ListIds |-> [live |-> FALSE, elems |-> <<>>]]
    /\ objs = [o \in ObjIds |-> FreeObj]
    /\ held = {}
    /\ ret = NoRet
    /\ th = [t \in Threads |-> IdleThread]

\* -------------------------------------------------------------- the caller
\* p = [e1, e2, ...]: the caller builds a list object
NewList(id, e) ==
    /\ ~lists[id].live
    /\ lists' = [lists EXCEPT ![id] = [live |-> TRUE, elems |-> e]]
    /\ ret' = [NoRet EXCEPT !.op = "newlist"]
    /\ UNCHANGED <<objs, held, th>>

\* p[i] = v: the caller assigns an item of a list it built
MutateList(id, i, v) ==
    /\ lists[id].live
    /\ i \in 1..Len(lists[id].elems)
    /\ lists[id].elems[i] # v
    /\ lists' = [lists EXCEPT ![id].elems[i] = v]
    /\ ret' = [NoRet EXCEPT !.op = "setitem"]
    /\ UNCHANGED <<objs, held, th>>

\* g = pgbf(e, og, pw), lines 34-41: the object is handed to the caller only
\* when __init__ returns; one it raised in is garbage.
Construct(o, e, og, pw) ==
    LET r == PgbfInit(lists, e, og, pw)
    IN  /\ o \notin held
        /\ \A t \in Threads : th[t].pc = "idle"
        /\ objs' = [objs EXCEPT ![o] = r.self]
        /\ held' = IF r.exc = "none" THEN held \cup {o} ELSE held
        /\ ret' = [NoRet EXCEPT !.op = "init", !.exc = r.exc,
                                !.obj = IF r.exc = "none" THEN o ELSE 0,
                                !.olen = Len(Deref(og)),
                                !.plen = Len(Deref(pw))]
        /\ UNCHANGED <<lists, th>>

\* g(x, y, z), lines 45-51, by a single-threaded caller
Call(o, pt) ==
    /\ o \in held
    /\ objs' = [objs EXCEPT ![o] = SelfAfterCall(lists, objs[o], pt)]
    /\ ret' = [NoRet EXCEPT !.op = "call", !.obj = o, !.pt = pt,
                            !.val = PgbfCall(lists, objs[o], pt)]
    /\ UNCHANGED <<lists, held, th>>

\* repr(g), line 43
Repr(o) ==
    /\ o \in held
    /\ ret' = [NoRet EXCEPT !.op = "repr", !.obj = o,
                            !.text = PgbfRepr(lists, objs[o])]
    /\ UNCHANGED <<lists, objs, held, th>>

\* g._normalize(), lines 53-60
Normalize(o) ==
    /\ o \in held
    /\ objs' = [objs EXCEPT ![o] = AfterNormalize(lists, objs[o])]
    /\ ret' = [NoRet EXCEPT !.op = "normalize", !.obj = o]
    /\ UNCHANGED <<lists, held, th>>

\* ------------------------------------------- __call__ run by several threads
\* line 47: i,j,k = self.powers
CallBegin(t, o, pt) ==
    /\ th[t].pc = "idle"
    /\ o \in held
    /\ th' = [th EXCEPT ![t] = [IdleThread EXCEPT !.pc = "l48", !.obj = o,
                   !.pt = pt, !.pw = Deref(objs[o].powers)]]
    /\ UNCHANGED <<lists, objs, held, ret>>

\* lines 48-50 with d and d2 kept in one place shared by every thread.
CallDispShared(t) ==
    /\ th[t].pc = "l48"
    /\ LET d == Displacement(objs[th[t].obj].origin, th[t].pt)
       IN  th' = [u \in Threads |->
                    [th[u] EXCEPT !.pc = IF u = t THEN "l51" ELSE @,
                                  !.d = d, !.d2 = norm2(d)]]
    /\ UNCHANGED <<lists, objs, held, ret>>

\* lines 48-50: xyz = array(args,'d'); d = xyz-self.origin; d2 = norm2(d),
\* into the locals of the running call
CallDisp(t) ==
    /\ th[t].pc = "l48"
    /\ LET d == Displacement(objs[th[t].obj].origin, th[t].pt)
       IN  th' = [th EXCEPT ![t].pc = "l51", ![t].d = d, ![t].d2 = norm2(d)]
    /\ UNCHANGED <<lists, objs, held, ret>>

\* line 51: return self.norm*d[0]**i*d[1]**j*d[2]**k*exp(-self.exponent*d2)
CallReturn(t) ==
    LET o == th[t].obj
    IN  /\ th[t].pc = "l51"
        /\ th' = [th EXCEPT ![t].pc = "done",
                            ![t].val = Amplitude(objs[o].norm, objs[o].exponent,
                                                 th[t].pw, th[t].d, th[t].d2)]
        /\ objs' = [objs EXCEPT ![o] = SelfAfterCall(lists, objs[o], th[t].pt)]
        /\ UNCHANGED <<lists, held, ret>>

\* the thread takes the returned value and is free to call again
CallDone(t) ==
    /\ th[t].pc = "done"
    /\ th' = [th EXCEPT ![t] = IdleThread]
    /\ UNCHANGED <<lists, objs, held, ret>>

Next ==
    \/ \E id \in ListIds, e \in SeqsOver(Elems) : NewList(id, e)
    \/ \E id \in ListIds, i \in 1..Arity, v \in Elems : MutateList(id, i, v)
    \/ \E o \in SoloIds, e \in ExponentArgs, og \in OriginArgs, pw \in PowersArgs :
          Construct(o, e, og, pw)
    \/ \E o \in SoloIds, pt \in Points : Call(o, pt)
    \/ \E o \in SoloIds : Repr(o)
    \/ \E o \in SoloIds : Normalize(o)

Spec == Init /\ [][Next]_vars

\* Two objects, two threads: constructions, evaluations interleaved line by
\* line, representations and normalizations; nobody assigns to a list.
NextPure ==
    \/ \E o \in ObjIds, e \in PureExponentArgs, og \in PureOriginArgs,
          pw \in PurePowersArgs : Construct(o, e, og, pw)
    \/ \E t \in Threads, o \in ObjIds, pt \in PurePoints : CallBegin(t, o, pt)
    \/ \E t \in Threads : CallDisp(t)
    \/ \E t \in Threads : CallReturn(t)
    \/ \E t \in Threads : CallDone(t)
    \/ \E o \in ObjIds : Repr(o)
    \/ \E o \in ObjIds : Normalize(o)

SpecPure == Init /\ [][NextPure]_vars

\* ------------------------------------------------------------- properties
\* The object the last operation of the single-threaded caller acted on.
Last == objs[ret.obj]
OriginOf(self) == [i \in 1..Len(self.origin) |-> self.origin[i].v]
CallAtOwnOrigin == ret.op = "call" /\ ret.pt = OriginOf(Last)
Constructed == ret.op = "init" /\ ret.exc = "none"

\* C1: with exponent > 0 and powers (0,0,0), evaluating the object at its own
\* origin returns exactly its stored norm (0^0 = 1, exp(0) = 1).
C1_SFunctionAtOrigin ==
    (/\ CallAtOwnOrigin
     /\ Last.exponent.v > 0
     /\ Deref(Last.powers) = <<0, 0, 0>>)
    => ret.val = Last.norm

C1_Witness ==
    /\ CallAtOwnOrigin
    /\ Last.exponent.v > 0
    /\ Deref(Last.powers) = <<0, 0, 0>>
    /\ ret.pt = <<1, 0, 1>>
    /\ ret.val = Last.norm
    /\ Positive(ret.val)

\* C2: with at least one power greater than 0, evaluating the object at its own
\* origin returns exactly 0.
C2_NonzeroPowerAtOrigin ==
    (/\ CallAtOwnOrigin
     /\ \E i \in 1..Arity : Deref(Last.powers)[i] > 0)
    => ret.val = Zero

C2_Witness ==
    /\ CallAtOwnOrigin
    /\ ret.pt = <<1, 0, 1>>
    /\ Last.exponent.v > 0
    /\ Deref(Last.powers)[1] > 0
    /\ ret.val = Zero

\* C3: a construction whose origin or powers has not exactly 3 elements raises
\* in the constructor and hands no object to the caller, not even the partly
\* initialized one that carries the placeholder norm; with both of length 3 it
\* raises nothing.
C3_ArityChecked ==
    /\ \A o \in held :
          /\ objs[o].st = "ready"
          /\ Len(objs[o].origin) = Arity
          /\ Len(Deref(objs[o].powers)) = Arity
    /\ ret.op = "init" =>
          /\ ret.exc = "AssertionError" <=> (ret.olen # Arity \/ ret.plen # Arity)
          /\ ret.exc = "none" <=> ret.obj \in held
          /\ ret.exc # "none" => ret.obj = 0

C3_Witness ==
    /\ ret.op = "init"
    /\ ret.exc = "AssertionError"
    /\ ret.olen = 2
    /\ ret.plen = Arity
    /\ held = {}
    /\ \E o \in SoloIds : objs[o].st = "partial" /\ objs[o].norm = One

\* C4 (as claimed): in every state after construction the stored norm is the
\* normalization formula applied to the current exponent and current powers.
C4_NormAlwaysConsistent ==
    \A o \in held :
        objs[o].norm = Normalization(objs[o].exponent, Deref(objs[o].powers))

\* C5 (as claimed): after a successful construction the exponent, origin and
\* powers fields read back equal to the three values supplied.
C5_RoundTripExact ==
    Constructed =>
        /\ PyEq(Last.exponent, Last.args.exponent)
        /\ \A i \in 1..Arity :
              PyEq(Last.origin[i], PyInt(Deref(Last.args.origin)[i]))
        /\ Last.powers = Last.args.powers

\* C5 (amended): after a successful construction the exponent field is the
\* float of the supplied exponent (equal to it when a number was supplied), the
\* origin field holds the supplied coordinates as doubles, and the powers field
\* is the supplied powers object.
C5_RoundTripConverted ==
    Constructed =>
        /\ Last.exponent.t = "float"
        /\ Last.exponent.v = Last.args.exponent.v
        /\ Last.args.exponent.t \in {"int", "float"} =>
              PyEq(Last.exponent, Last.args.exponent)
        /\ \A i \in 1..Arity :
              /\ Last.origin[i].t = "float"
              /\ Last.origin[i].v = Deref(Last.args.origin)[i]
        /\ Last.powers = Last.args.powers

C5_Witness ==
    /\ Constructed
    /\ Last.args.exponent = PyInt(MaxExp)
    /\ Last.exponent = PyFloat(MaxExp)
    /\ OriginOf(Last) = <<1, 0, 1>>
    /\ Last.powers.kind = "list"

\* C6: for an exponent > 0 and non-negative integer powers the norm stored by
\* construction is strictly positive.
C6_NormPositive ==
    (Constructed /\ Last.args.exponent.v > 0) => Positive(Last.norm)

C6_Witness ==
    /\ Constructed
    /\ Last.args.exponent.v = MaxExp
    /\ Deref(Last.powers) = <<MaxPower, MaxPower, MaxPower>>
    /\ Positive(Last.norm)

\* The fields of an object and its amplitude at every point, as a caller sees them.
View(o) ==
    <<objs[o].exponent, objs[o].origin, Deref(objs[o].powers), objs[o].norm,
      [pt \in Points |-> PgbfCall(lists, objs[o], pt)]>>

\* C9 (as claimed): once the constructor has returned, an assignment by the
\* caller to the origin or powers sequence it passed changes neither the
\* object's fields nor the result of any later evaluation.
C9_CallerMutationInvisible ==
    [][(\E id \in ListIds, i \in 1..Arity, v \in Elems : MutateList(id, i, v))
         => \A o \in held : View(o)' = View(o)]_vars

\* C10: an evaluation and a representation leave exponent, origin, powers and
\* norm unchanged, and evaluating the same point twice in a row returns the
\* same result.
C10_PureReads ==
    [][/\ ((\E o \in SoloIds, pt \in Points : Call(o, pt))
             \/ (\E o \in SoloIds : Repr(o)))
          => UNCHANGED <<objs, lists, held>>
       /\ (ret.op = "call" /\ Call(ret.obj, ret.pt)) => ret'.val = ret.val]_vars

C10_Witness ==
    /\ ret.op = "call"
    /\ ret.pt # OriginOf(Last)
    /\ ret.val.c # 0
    /\ ret.val.e > 0
    /\ Last.powers.kind = "list"

\* C7: evaluations interleaved in any order: every finished evaluation returns
\* what the same evaluation returns run alone, no step changes a field of an
\* object the caller holds, and no step touches the locals of two evaluations.
C7Alone ==
    \A t \in Threads :
        th[t].pc = "done" =>
            th[t].val = PgbfCall(lists, objs[th[t].obj], th[t].pt)
C7Frame ==
    /\ \A o \in held : objs'[o] = objs[o]
    /\ \A t \in Threads, u \in Threads :
          t # u => (th'[t] = th[t] \/ th'[u] = th[u])
C8_Determinism ==
    \A o1 \in held, o2 \in held :
        objs[o1].args = objs[o2].args =>
            /\ objs[o1].norm = objs[o2].norm
            /\ \A t \in Threads, u \in Threads :
                  (/\ th[t].pc = "done" /\ th[t].obj = o1
                   /\ th[u].pc = "done" /\ th[u].obj = o2
                   /\ th[t].pt = th[u].pt)
                  => th[t].val = th[u].val

C8_Witness ==
    /\ held = ObjIds
    /\ objs[1].args = objs[2].args
    /\ th[1].pc = "done" /\ th[1].obj = 1
    /\ th[2].pc = "done" /\ th[2].obj = 2
    /\ th[1].pt = th[2].pt
    /\ th[1].pt # OriginOf(objs[1])
    /\ th[1].val = th[2].val
    /\ th[1].val.c # 0

====
